---- MODULE Spec2Model ----
(***************************************************************************)
(* Worksheet normalisation and row parsing of files-debugger-reactjs.      *)
(*                                                                         *)
(* JavaScript values are records [t, s, n]: t is the kind ("str", "num",   *)
(* "nan", "inf", "bool", "undef", "null"), s the characters of a string (a *)
(* sequence of one-character strings) and n the integer of a number or the *)
(* 0/1 of a boolean.  A worksheet is the XLSX.WorkSheet object: its cell   *)
(* records, its "!ref" and its "!merges", either of which may be missing.  *)
(*                                                                         *)
(* Spec       the normaliser on any sparse sheet: handleMergedCells, then  *)
(*            worksheetToArray, then the same two on the re-wrapped grid   *)
(* SpecRow    parseIotDataset on a header and one row of any content       *)
(* SpecParse  a long-lived parser: parseDataset calls and clearDataset     *)
(* SpecMatch  the worksheet lookup of parseMasterSheetFromWorkbook         *)
(* SpecOverlap the normaliser on sheets with overlapping merge rectangles  *)
(* SpecDate   ExcelDateUtils.toExcelDate and toJsDate there and back       *)
(* SpecView   ExcelReaderView: uploads, reader events, selection, reset    *)
(* SpecRead   SpecView with readers that end every read they started       *)
(***************************************************************************)
EXTENDS Integers, Sequences, FiniteSets, TLC

VARIABLES
    sheet0,     \* the worksheet as the decoder delivered it
    sheet,      \* the worksheet object the normaliser works on
    grid,       \* the any[][] returned by worksheetToArray
    npc,        \* normaliser position: "start", "merged", "done", "again", "raised"
    grid2,      \* the grid of the second normalisation (of the re-wrapped grid)
    rawData,    \* the any[][] last passed to parseDataset
    ret,        \* what that call returned: result, errors, and whether the errors key is there
    parsedData, \* IotAnalyticsMetalmanParser.parsedData of the long-lived parser
    ppc,        \* parser position: "idle", "parsed", "cleared", "fresh"
    sheetNames, \* workbook.SheetNames
    matched,    \* what matchNormalizedPhrase returned
    mpc,        \* lookup position: "start", "found", "thrown"
    jsDate,     \* a Date handed to toExcelDate
    excelDate,  \* a serial handed to toJsDate
    dateBack,   \* toJsDate(toExcelDate(jsDate))
    serialBack, \* toExcelDate(toJsDate(excelDate))
    dpc,        \* conversions done: "start", "date", "both"
    reads,      \* one record per readContentsFromExcelFile call of the view, in call order
    workbookData,       \* ExcelReaderView state: "null" or the workbook shown
    selectedSheetName   \* ExcelReaderView state: "" or a sheet name

nvars == <<sheet0, sheet, grid, npc, grid2>>
pvars == <<rawData, ret, parsedData, ppc>>
mvars == <<sheetNames, matched, mpc>>
dvars == <<jsDate, excelDate, dateBack, serialBack, dpc>>
wvars == <<reads, workbookData, selectedSheetName>>
vars == <<sheet0, sheet, grid, npc, grid2, rawData, ret, parsedData, ppc,
          sheetNames, matched, mpc, jsDate, excelDate, dateBack, serialBack, dpc,
          reads, workbookData, selectedSheetName>>

----------------------------------------------------------------------------
(* Bounds of the model *)

MaxRow == 1        \* sheet rows are 0..MaxRow
MaxCol == 2        \* sheet columns are 0..MaxCol
MaxDataRows == 2   \* data rows of a grid passed to the long-lived parser
MaxParsed == 3     \* points the long-lived parser accumulates
MaxSheets == 2     \* sheets of a workbook

----------------------------------------------------------------------------
(* JavaScript values *)

Str(s) == [t |-> "str", s |-> s, n |-> 0]
Num(n) == [t |-> "num", s |-> <<>>, n |-> n]
Bool(b) == [t |-> "bool", s |-> <<>>, n |-> IF b THEN 1 ELSE 0]
Undef == [t |-> "undef", s |-> <<>>, n |-> 0]
NaN == [t |-> "nan", s |-> <<>>, n |-> 0]
Infinity == [t |-> "inf", s |-> <<>>, n |-> 0]
EmptyStr == Str(<<>>)

IsWs(c) == c \in {" ", "\t"}

RECURSIVE TrimStart(_)
TrimStart(s) ==
    IF s # <<>> /\ IsWs(Head(s)) THEN TrimStart(Tail(s)) ELSE s

RECURSIVE TrimEnd(_)
TrimEnd(s) ==
    IF s # <<>> /\ IsWs(s[Len(s)]) THEN TrimEnd(SubSeq(s, 1, Len(s) - 1)) ELSE s

\* String.prototype.trim
Trim(s) == TrimEnd(TrimStart(s))

\* ToBoolean(v) = false: the values for which `v || ""` yields ""
Falsy(v) ==
    \/ v.t \in {"undef", "null", "nan"}
    \/ v.t = "str" /\ v.s = <<>>
    \/ v.t = "num" /\ v.n = 0
    \/ v.t = "bool" /\ v.n = 0

----------------------------------------------------------------------------
(* Worksheets *)

Rows == 0..MaxRow
Cols == 0..MaxCol
Coord == Rows \X Cols

NoCell == [ex |-> FALSE, typed |-> FALSE, v |-> Undef]
\* a cell record as the decoder writes it: { t, v }
TypedCell(v) == [ex |-> TRUE, typed |-> TRUE, v |-> v]
\* a cell record as handleMergedCells writes it: { v }
PlainCell(v) == [ex |-> TRUE, typed |-> FALSE, v |-> v]

Rects == {[sr |-> a, sc |-> b, er |-> c, ec |-> d] :
             <<a, b, c, d>> \in {q \in Rows \X Cols \X Rows \X Cols :
                                    q[1] <= q[3] /\ q[2] <= q[4]}}

NoRef == [def |-> FALSE, sr |-> 0, sc |-> 0, er |-> 0, ec |-> 0]
RefOf(m) == [def |-> TRUE, sr |-> m.sr, sc |-> m.sc, er |-> m.er, ec |-> m.ec]
NoMerges == [def |-> FALSE, list |-> <<>>]
MergesOf(l) == [def |-> TRUE, list |-> l]

InRect(c, m) == m.sr <= c[1] /\ c[1] <= m.er /\ m.sc <= c[2] /\ c[2] <= m.ec
InRange(c, ref) == ref.def /\ InRect(c, ref)

\* the values a decoded cell holds in this model
CellValues == {Str(<<" ", "x">>), Num(0)}

\* sparse sheets: no cell, or one populated cell anywhere on the sheet
CellMaps ==
    {[c \in Coord |-> NoCell]} \cup
    {[c \in Coord |-> IF c = p THEN TypedCell(v) ELSE NoCell] :
        p \in Coord, v \in CellValues}

MergeLists == {<<>>} \cup {<<m>> : m \in Rects}

Sheets ==
    {[cells |-> f, ref |-> r, merges |-> ms] :
        f \in CellMaps,
        r \in {NoRef} \cup {RefOf(m) : m \in Rects},
        ms \in {NoMerges} \cup {MergesOf(l) : l \in MergeLists}}

----------------------------------------------------------------------------
(* handleMergedCells *)

CellV(cells, c) == IF cells[c].ex THEN cells[c].v ELSE Undef

\* const topLeftValue = sheet[startCell]?.v || "";
TopLeftValue(cells, m) ==
    LET v == CellV(cells, <<m.sr, m.sc>>)
    IN IF Falsy(v) THEN EmptyStr ELSE v

\* startCellValue !== undefined ? startCellValue : ""
StartCellValue(cells, m) ==
    LET v == CellV(cells, <<m.sr, m.sc>>)
    IN IF v.t = "undef" THEN EmptyStr ELSE v

MergeValue(variant, cells, m) ==
    IF variant = "helpers" THEN TopLeftValue(cells, m) ELSE StartCellValue(cells, m)

\* one merge range: every cell of the range becomes { v: <top-left value> }
FillMerge(variant, cells, m) ==
    LET tl == MergeValue(variant, cells, m)
    IN [c \in Coord |-> IF InRect(c, m) THEN PlainCell(tl) ELSE cells[c]]

\* the merge loop with every top-left value taken from the sheet as it came
\* in, whatever earlier ranges wrote: each cell gets the input top-left value
\* of the last range that covers it
FillMerges_FromInput(variant, cells, list) ==
    [c \in Coord |->
        LET ks == {k \in 1..Len(list) : InRect(c, list[k])}
        IN IF ks = {} THEN cells[c]
           ELSE PlainCell(MergeValue(variant, cells,
                                     list[CHOOSE k \in ks : \A j \in ks : j <= k]))]

\* sheet["!merges"].forEach: the ranges in declaration order
RECURSIVE FillMerges(_, _, _)
FillMerges(variant, cells, list) ==
    IF list = <<>> THEN cells
    ELSE FillMerges(variant, FillMerge(variant, cells, Head(list)), Tail(list))

\* per cell of the used range: trim a string value, create a missing cell as { v: "" }
TrimOrFill(cell) ==
    IF ~cell.ex THEN PlainCell(EmptyStr)
    ELSE IF cell.v.t = "str" THEN [cell EXCEPT !.v = Str(Trim(cell.v.s))]
    ELSE cell

TrimRange(cells, ref) ==
    [c \in Coord |-> IF InRange(c, ref) THEN TrimOrFill(cells[c]) ELSE cells[c]]

\* handleMergedCells without its early return: a sheet with no "!merges" is
\* trimmed and filled like one with an empty list
handleMergedCells_NoEarlyReturn(variant, sh) ==
    LET filled == FillMerges(variant, sh.cells,
                             IF sh.merges.def THEN sh.merges.list ELSE <<>>)
    IN IF ~sh.ref.def
       THEN [raised |-> TRUE, sheet |-> [sh EXCEPT !.cells = filled]]
       ELSE [raised |-> FALSE,
             sheet |-> [sh EXCEPT !.cells = TrimRange(filled, sh.ref)]]

\* The sheet object after the call, and whether the call threw:
\* XLSX.utils.decode_range(undefined) throws a TypeError, after the merge loop ran.
handleMergedCells(variant, sh) ==
    IF ~sh.merges.def THEN [raised |-> FALSE, sheet |-> sh]
    ELSE LET filled == FillMerges(variant, sh.cells, sh.merges.list)
         IN IF ~sh.ref.def
            THEN [raised |-> TRUE, sheet |-> [sh EXCEPT !.cells = filled]]
            ELSE [raised |-> FALSE,
                  sheet |-> [sh EXCEPT !.cells = TrimRange(filled, sh.ref)]]

----------------------------------------------------------------------------
(* worksheetToArray *)

Hole == Undef

\* what sheet_to_json reads from one cell with { header: 1, defval: "" }: a cell
\* that is missing, has no type tag or holds no value yields the default
CellToJson(cell) ==
    IF ~cell.ex \/ ~cell.typed \/ cell.v.t \in {"undef", "null"} THEN EmptyStr
    ELSE cell.v

\* XLSX.utils.sheet_to_json(sheet, { header: 1, defval: "" }): one array per row
\* of "!ref", indexed from the first row and column of "!ref"; [] without "!ref"
SheetToJson(sh) ==
    IF ~sh.ref.def THEN <<>>
    ELSE [i \in 1..(sh.ref.er - sh.ref.sr + 1) |->
            [j \in 1..(sh.ref.ec - sh.ref.sc + 1) |->
                CellToJson(sh.cells[<<sh.ref.sr + i - 1, sh.ref.sc + j - 1>>])]]

Max(a, b) == IF a >= b THEN a ELSE b

\* data[R][C] = topLeftValue for C = sc..ec on one row array; writing past the
\* end of a JavaScript array lengthens it and leaves holes
SetCols(row, sc, ec, v) ==
    [j \in 1..Max(Len(row), ec + 1) |->
        IF sc <= j - 1 /\ j - 1 <= ec THEN v
        ELSE IF j <= Len(row) THEN row[j] ELSE Hole]

\* one merge range on the array; data[R] of a missing row is undefined and
\* data[R][C] = ... then throws a TypeError
RECURSIVE PropagateMerges(_, _, _)
PropagateMerges(data, cells, list) ==
    IF list = <<>> THEN [raised |-> FALSE, grid |-> data]
    ELSE LET m == Head(list)
             tl == TopLeftValue(cells, m)
         IN IF m.er + 1 > Len(data) THEN [raised |-> TRUE, grid |-> <<>>]
            ELSE PropagateMerges(
                     [i \in 1..Len(data) |->
                         IF m.sr <= i - 1 /\ i - 1 <= m.er
                         THEN SetCols(data[i], m.sc, m.ec, tl) ELSE data[i]],
                     cells, Tail(list))

worksheetToArray(sh) ==
    PropagateMerges(SheetToJson(sh), sh.cells,
                    IF sh.merges.def THEN sh.merges.list ELSE <<>>)

----------------------------------------------------------------------------
(* The grid wrapped back into a worksheet with no merges (aoa_to_sheet):     *)
(* one typed cell per defined array element, "!ref" their bounding box.      *)

Defined(g) ==
    {c \in Coord : c[1] + 1 <= Len(g) /\ c[2] + 1 <= Len(g[c[1] + 1])
                   /\ g[c[1] + 1][c[2] + 1].t # "undef"}

Min(a, b) == IF a <= b THEN a ELSE b

RECURSIVE SetMin(_)
SetMin(S) == LET x == CHOOSE y \in S : TRUE
             IN IF S = {x} THEN x ELSE Min(x, SetMin(S \ {x}))

RECURSIVE SetMax(_)
SetMax(S) == LET x == CHOOSE y \in S : TRUE
             IN IF S = {x} THEN x ELSE Max(x, SetMax(S \ {x}))

Wrap(g) ==
    LET d == Defined(g)
    IN [cells |-> [c \in Coord |->
                      IF c \in d THEN TypedCell(g[c[1] + 1][c[2] + 1]) ELSE NoCell],
        ref |-> IF d = {} THEN NoRef
                ELSE [def |-> TRUE,
                      sr |-> SetMin({c[1] : c \in d}), sc |-> SetMin({c[2] : c \in d}),
                      er |-> SetMax({c[1] : c \in d}), ec |-> SetMax({c[2] : c \in d})],
        merges |-> NoMerges]

----------------------------------------------------------------------------
(* The normaliser as its callers run it: handleMergedCells, then             *)
(* worksheetToArray on the sheet it returned.                                *)

Variants == {"helpers", "ExcelUtilMethods"}

NormStart(sh) ==
    /\ sheet0 = sh
    /\ sheet = sh
    /\ grid = <<>>
    /\ npc = "start"
    /\ grid2 = <<>>

ParserIdle ==
    /\ rawData = <<>>
    /\ ret = [result |-> <<>>, errors |-> <<>>, hasErrors |-> FALSE]
    /\ parsedData = <<>>
    /\ ppc = "idle"

\* no conversion asked for, no file uploaded
Elsewhere ==
    /\ jsDate = [valid |-> FALSE, days |-> 0, ms |-> 0]
    /\ excelDate = [t |-> "nan", n |-> 0, u |-> 0]
    /\ dateBack = jsDate
    /\ serialBack = excelDate
    /\ dpc = "start"
    /\ reads = <<>>
    /\ workbookData = "null"
    /\ selectedSheetName = ""

LookupStart(names) ==
    /\ sheetNames = names
    /\ matched = [found |-> FALSE, name |-> <<>>]
    /\ mpc = "start"
    /\ Elsewhere

EmptySheet == [cells |-> [c \in Coord |-> NoCell], ref |-> NoRef, merges |-> NoMerges]

InitNorm ==
    /\ \E sh \in Sheets : NormStart(sh)
    /\ ParserIdle
    /\ LookupStart(<<>>)

HandleMergedCells ==
    /\ npc = "start"
    /\ \E variant \in Variants :
          LET r == handleMergedCells(variant, sheet)
          IN /\ sheet' = r.sheet
             /\ npc' = IF r.raised THEN "raised" ELSE "merged"
    /\ UNCHANGED <<sheet0, grid, grid2, pvars, mvars, dvars, wvars>>

WorksheetToArray ==
    /\ npc = "merged"
    /\ LET r == worksheetToArray(sheet)
       IN /\ grid' = r.grid
          /\ npc' = IF r.raised THEN "raised" ELSE "done"
    /\ UNCHANGED <<sheet0, sheet, grid2, pvars, mvars, dvars, wvars>>

\* the normalised grid, wrapped into a sheet and normalised once more
Renormalize ==
    /\ npc = "done"
    /\ \E variant \in Variants :
          LET h == handleMergedCells(variant, Wrap(grid))
              r == worksheetToArray(h.sheet)
          IN /\ ~h.raised /\ ~r.raised
             /\ grid2' = r.grid
             /\ npc' = "again"
    /\ UNCHANGED <<sheet0, sheet, grid, pvars, mvars, dvars, wvars>>

Next == HandleMergedCells \/ WorksheetToArray \/ Renormalize

Spec == InitNorm /\ [][Next]_vars

----------------------------------------------------------------------------
(* Claims about the normaliser *)

Normalised == npc \in {"done", "again"}

RefRows(sh) == IF sh.ref.def THEN sh.ref.er - sh.ref.sr + 1 ELSE 0
RefCols(sh) == IF sh.ref.def THEN sh.ref.ec - sh.ref.sc + 1 ELSE 0

\* C3: the grid has as many rows as the used range, every row has as many
\* cells as the used range has columns, and no cell of it is absent.
C3_Rectangular ==
    Normalised =>
        /\ Len(grid) = RefRows(sheet0)
        /\ \A i \in 1..Len(grid) :
              /\ Len(grid[i]) = RefCols(sheet0)
              /\ \A j \in 1..Len(grid[i]) : grid[i][j].t # "undef"

InsideRef(m, ref) ==
    ref.def /\ ref.sr <= m.sr /\ m.er <= ref.er /\ ref.sc <= m.sc /\ m.ec <= ref.ec

Overlap(a, b) ==
    a.sr <= b.er /\ b.sr <= a.er /\ a.sc <= b.ec /\ b.sc <= a.ec

MergeList(sh) == IF sh.merges.def THEN sh.merges.list ELSE <<>>

WellFormedMerges(sh) ==
    LET l == MergeList(sh)
    IN /\ \A k \in 1..Len(l) : InsideRef(l[k], sh.ref)
       /\ \A k1, k2 \in 1..Len(l) : k1 # k2 => ~Overlap(l[k1], l[k2])

\* the grid cell of sheet coordinate c, counted from the used range's corner
GridAt(g, ref, c) == g[c[1] - ref.sr + 1][c[2] - ref.sc + 1]

TrimmedValue(v) == IF v.t = "str" THEN Str(Trim(v.s)) ELSE v

\* C4: with non-overlapping merge rectangles inside the used range, every cell
\* of a rectangle holds the rectangle's top-left value of the input sheet
\* (trimmed if a string), and the empty string only when that cell is absent.
C4_MergePropagation ==
    (Normalised /\ WellFormedMerges(sheet0)) =>
        \A k \in 1..Len(MergeList(sheet0)) :
            LET m == MergeList(sheet0)[k]
                tl == sheet0.cells[<<m.sr, m.sc>>]
            IN \A c \in {d \in Coord : InRect(d, m)} :
                  /\ Len(grid) >= c[1] - sheet0.ref.sr + 1
                  /\ Len(grid[c[1] - sheet0.ref.sr + 1]) >= c[2] - sheet0.ref.sc + 1
                  /\ GridAt(grid, sheet0.ref, c) =
                        (IF tl.ex THEN TrimmedValue(tl.v) ELSE EmptyStr)

\* C5: no string cell of the normalised grid has leading or trailing
\* whitespace, whether or not the sheet declares merge rectangles.
C5_NoUntrimmedString ==
    Normalised =>
        \A i \in 1..Len(grid) : \A j \in 1..Len(grid[i]) :
            grid[i][j].t = "str" => Trim(grid[i][j].s) = grid[i][j].s

\* C8: the normaliser never raises, whatever the sheet.
C8_NeverRaises == npc # "raised"

\* C9 as stated: the normaliser leaves the cell mapping of its input unchanged.
C9_InputUnchanged == npc # "start" => sheet.cells = sheet0.cells

\* C9 as amended: the input cell mapping is unchanged exactly when the sheet
\* declares no merge rectangles; otherwise handleMergedCells rewrites the
\* input in place, but only cells of the merge rectangles and of the used
\* range, and never "!ref" or "!merges"; worksheetToArray only reads it.
C9_InPlaceOnlyWithMerges ==
    npc # "start" =>
        /\ ~sheet0.merges.def => sheet = sheet0
        /\ \E variant \in Variants : sheet = handleMergedCells(variant, sheet0).sheet
        /\ sheet.ref = sheet0.ref /\ sheet.merges = sheet0.merges
        /\ \A c \in Coord :
              sheet.cells[c] # sheet0.cells[c] =>
                  \/ InRange(c, sheet0.ref)
                  \/ \E k \in 1..Len(MergeList(sheet0)) : InRect(c, MergeList(sheet0)[k])

\* C9 witness: a sheet without merges whose used range holds an untrimmed
\* string went through both calls and is still the sheet that was passed in.
C9_Witness ==
    /\ npc = "done"
    /\ ~sheet0.merges.def
    /\ \E c \in Coord :
          /\ InRange(c, sheet0.ref)
          /\ sheet0.cells[c].ex /\ sheet0.cells[c].v.t = "str"
          /\ Trim(sheet0.cells[c].v.s) # sheet0.cells[c].v.s
    /\ sheet = sheet0

\* C10: normalising the re-wrapped normalised grid yields the same grid.
C10_Idempotent == npc = "again" => grid2 = grid

----------------------------------------------------------------------------
(* Overlapping merge rectangles: a sheet whose used range is the whole      *)
(* sheet, every cell but the missing A1 holding its own name, with up to    *)
(* MaxMerges rectangles that may overlap.                                   *)

MaxMerges == 2     \* merge rectangles of a sheet with overlaps

UpperCaseOfColumn(c) ==
    <<"A", "B", "C", "D", "E", "F", "G", "H">>[c + 1]
DigitOfRow(r) ==
    <<"1", "2", "3", "4", "5", "6", "7", "8">>[r + 1]

\* the cell of row r, column c holds "A1", "B1", ... as the decoder names it
NameOfCell(c) == Str(<<UpperCaseOfColumn(c[2]), DigitOfRow(c[1])>>)

NamedCells == [c \in Coord |-> TypedCell(NameOfCell(c))]

\* every cell populated but A1, which the decoder left out as empty
OverlapCells == [NamedCells EXCEPT ![<<0, 0>>] = NoCell]

WholeSheetRef == [def |-> TRUE, sr |-> 0, sc |-> 0, er |-> MaxRow, ec |-> MaxCol]

\* such sheets with one to n merge rectangles, in any order, overlapping or not
OverlapSheets(n) ==
    {[cells |-> OverlapCells, ref |-> WholeSheetRef, merges |-> MergesOf(l)] :
        l \in UNION {[1..k -> Rects] : k \in 1..n}}

InitOverlap ==
    /\ \E sh \in OverlapSheets(MaxMerges) : NormStart(sh)
    /\ ParserIdle
    /\ LookupStart(<<>>)

NextOverlap == HandleMergedCells \/ WorksheetToArray

SpecOverlap == InitOverlap /\ [][NextOverlap]_vars

TopLeft(m) == <<m.sr, m.sc>>

\* the rectangles of the list that cover a cell, by position
Covering(l, c) == {k \in 1..Len(l) : InRect(c, l[k])}

\* what a cell of the input sheet shows: its trimmed value, "" when absent
InputValue(c) ==
    IF sheet0.cells[c].ex THEN TrimmedValue(sheet0.cells[c].v) ELSE EmptyStr

\* C19 as stated: a cell covered by one rectangle holds the value that
\* rectangle's top-left cell has in the input sheet; a cell covered by several
\* holds the value propagated by the last of them in declaration order, the
\* one value that every cell with the same last rectangle holds.
C19_LastRectangleWins ==
    Normalised =>
        LET l == MergeList(sheet0)
        IN \A c \in Coord :
              LET ks == Covering(l, c)
              IN /\ Cardinality(ks) = 1 =>
                       GridAt(grid, sheet0.ref, c) = InputValue(TopLeft(l[SetMax(ks)]))
                 /\ Cardinality(ks) > 1 =>
                       \A d \in Coord :
                           (Covering(l, d) # {} /\ SetMax(Covering(l, d)) = SetMax(ks)) =>
                               GridAt(grid, sheet0.ref, d) = GridAt(grid, sheet0.ref, c)

\* the value rectangle k writes when handleMergedCells reaches it: that of
\* its top-left cell as the rectangles before k left it
RECURSIVE ValueWhenApplied(_, _)
ValueWhenApplied(l, k) ==
    LET before == {j \in Covering(l, TopLeft(l[k])) : j < k}
    IN IF before = {} THEN InputValue(TopLeft(l[k]))
       ELSE ValueWhenApplied(l, SetMax(before))

\* the value of a covered cell once all rectangles have been applied in order
ValueAfterAll(l, c) == ValueWhenApplied(l, SetMax(Covering(l, c)))

\* C19 as amended: a covered cell holds the value that the top-left cell of
\* the last rectangle covering it has after all rectangles were applied in
\* declaration order, each rectangle taking the value its own top-left cell
\* had when its turn came.  That is the input value of the rectangle's
\* top-left cell only if no other rectangle covers that top-left cell.
C19_TopLeftAfterAllRectangles ==
    Normalised =>
        LET l == MergeList(sheet0)
        IN \A c \in Coord :
              Covering(l, c) # {} =>
                  GridAt(grid, sheet0.ref, c) =
                      ValueAfterAll(l, TopLeft(l[SetMax(Covering(l, c))]))

\* C19 witness: the second rectangle's top-left cell lies in the first, and a
\* cell that only the second covers holds the first rectangle's value.
C19_Witness ==
    /\ npc = "done"
    /\ Len(MergeList(sheet0)) = 2
    /\ LET l == MergeList(sheet0)
       IN /\ InRect(TopLeft(l[2]), l[1])
          /\ InputValue(TopLeft(l[1])) # InputValue(TopLeft(l[2]))
          /\ \E c \in Coord :
                /\ Covering(l, c) = {2}
                /\ GridAt(grid, sheet0.ref, c) = InputValue(TopLeft(l[1]))

----------------------------------------------------------------------------
(* ExcelDateUtils.  A Date is its time value, kept as whole days since the  *)
(* epoch plus milliseconds within the day (days * MILLISECONDS_PER_DAY + ms *)
(* is the number getTime() returns), or the invalid date.                   *)

EXCEL_DATE_OFFSET == 25569
MILLISECONDS_PER_DAY == 86400 * 1000

\* new Date(t) is invalid for |t| > 8.64e15 ms, which is 100,000,000 days
MaxTimeDays == 100 * 1000 * 1000

InvalidDate == [valid |-> FALSE, days |-> 0, ms |-> 0]

IsNumber(v) == v.t \in {"num", "nan", "inf"}

\* new Date((excelDate - EXCEL_DATE_OFFSET) * MILLISECONDS_PER_DAY), excelDate whole
toJsDate(v) ==
    IF v.t = "num" /\ v.n - EXCEL_DATE_OFFSET <= MaxTimeDays
                   /\ EXCEL_DATE_OFFSET - v.n <= MaxTimeDays
    THEN [valid |-> TRUE, days |-> v.n - EXCEL_DATE_OFFSET, ms |-> 0]
    ELSE InvalidDate

\* isValidExcelDate with the typeof test alone: the date is not looked at
isValidExcelDate_TypeOnly(v) == IsNumber(v)

isValidExcelDate(v) ==
    IF ~IsNumber(v) THEN FALSE ELSE toJsDate(v).valid

----------------------------------------------------------------------------
(* Conversions of JavaScript the parser relies on *)

Digits == <<"0", "1", "2", "3", "4", "5", "6", "7", "8", "9">>
IsDigit(c) == \E d \in 1..10 : Digits[d] = c
DigitOf(c) == (CHOOSE d \in 1..10 : Digits[d] = c) - 1

RECURSIVE DecimalValue(_)
DecimalValue(s) ==
    IF s = <<>> THEN 0
    ELSE 10 * DecimalValue(SubSeq(s, 1, Len(s) - 1)) + DigitOf(s[Len(s)])

InfinityLiteral == <<"I", "n", "f", "i", "n", "i", "t", "y">>

\* Number(v): strings are trimmed; "" is 0, decimal digits their value,
\* "Infinity" infinite, any other text of this model's alphabet NaN
ToNumber(v) ==
    CASE v.t = "undef" -> NaN
      [] v.t = "null" -> Num(0)
      [] v.t = "bool" -> Num(v.n)
      [] v.t = "str" ->
            LET x == Trim(v.s)
            IN IF x = <<>> THEN Num(0)
               ELSE IF x = InfinityLiteral THEN Infinity
               ELSE IF \A k \in 1..Len(x) : IsDigit(x[k]) THEN Num(DecimalValue(x))
               ELSE NaN
      [] OTHER -> v

RECURSIVE DecimalText(_)
DecimalText(n) ==
    IF n < 10 THEN <<Digits[n + 1]>>
    ELSE DecimalText(n \div 10) \o <<Digits[(n % 10) + 1]>>

\* `${v}` in a template literal
ToText(v) ==
    CASE v.t = "undef" -> <<"u", "n", "d", "e", "f", "i", "n", "e", "d">>
      [] v.t = "null" -> <<"n", "u", "l", "l">>
      [] v.t = "bool" -> IF v.n = 1 THEN <<"t", "r", "u", "e">>
                         ELSE <<"f", "a", "l", "s", "e">>
      [] v.t = "nan" -> <<"N", "a", "N">>
      [] v.t = "inf" -> InfinityLiteral
      [] v.t = "num" -> IF v.n < 0 THEN <<"-">> \o DecimalText(0 - v.n)
                        ELSE DecimalText(v.n)
      [] OTHER -> v.s

----------------------------------------------------------------------------
(* IotAnalyticsMetalmanParser.parseRow: what the call returns or throws *)

\* value == null || (typeof value === "string" && value.trim() === "")
IsBlank(v) == v.t \in {"undef", "null"} \/ (v.t = "str" /\ Trim(v.s) = <<>>)

\* destructuring: a position past the end of the row is undefined
Field(row, k) == IF k <= Len(row) THEN row[k] ELSE Undef

\* typeof x !== "string" || x.trim() === ""
NotAName(v) == v.t # "str" \/ Trim(v.s) = <<>>

Thrown(rowIndex, type, message, raw) ==
    [kind |-> "ParseError", row |-> rowIndex, type |-> type,
     message |-> message, raw |-> raw,
     point |-> [plant |-> <<>>, date |-> InvalidDate, hourRange |-> <<>>,
                sensorName |-> <<>>, consumedKW |-> NaN]]

Returned(point) ==
    [kind |-> "point", row |-> 0, type |-> "none", message |-> "", raw |-> <<>>,
     point |-> point]

\* parseRow with the plant check moved before the date check
parseRow_PlantBeforeDate(row, rowIndex) ==
    LET plant == Field(row, 1)
        dateValue == Field(row, 2)
        hourRange == Field(row, 3)
        sensorName == Field(row, 4)
        consumedKW == Field(row, 5)
        parsedConsumedKW == ToNumber(consumedKW)
    IN IF \A k \in 1..Len(row) : IsBlank(row[k])
       THEN Thrown(rowIndex, "MissingData", "Row has insufficient data", <<>>)
       ELSE IF NotAName(plant)
       THEN Thrown(rowIndex, "InvalidData", "Invalid plant name", <<>>)
       ELSE IF ~isValidExcelDate(dateValue)
       THEN Thrown(rowIndex, "InvalidDate", "Invalid date value: ", ToText(dateValue))
       ELSE IF NotAName(hourRange)
       THEN Thrown(rowIndex, "InvalidData", "Invalid hour range", <<>>)
       ELSE IF NotAName(sensorName)
       THEN Thrown(rowIndex, "InvalidData", "Invalid sensor name", <<>>)
       ELSE IF parsedConsumedKW.t = "nan"
       THEN Thrown(rowIndex, "InvalidConsumption", "Invalid consumedKW value: ",
                   ToText(consumedKW))
       ELSE Returned([plant |-> Trim(plant.s), date |-> toJsDate(dateValue),
                      hourRange |-> Trim(hourRange.s),
                      sensorName |-> Trim(sensorName.s),
                      consumedKW |-> parsedConsumedKW])

\* parseRow returning the three names as they stand in the row, untrimmed
parseRow_NoTrim(row, rowIndex) ==
    LET plant == Field(row, 1)
        dateValue == Field(row, 2)
        hourRange == Field(row, 3)
        sensorName == Field(row, 4)
        consumedKW == Field(row, 5)
        parsedConsumedKW == ToNumber(consumedKW)
    IN IF \A k \in 1..Len(row) : IsBlank(row[k])
       THEN Thrown(rowIndex, "MissingData", "Row has insufficient data", <<>>)
       ELSE IF ~isValidExcelDate(dateValue)
       THEN Thrown(rowIndex, "InvalidDate", "Invalid date value: ", ToText(dateValue))
       ELSE IF NotAName(plant)
       THEN Thrown(rowIndex, "InvalidData", "Invalid plant name", <<>>)
       ELSE IF NotAName(hourRange)
       THEN Thrown(rowIndex, "InvalidData", "Invalid hour range", <<>>)
       ELSE IF NotAName(sensorName)
       THEN Thrown(rowIndex, "InvalidData", "Invalid sensor name", <<>>)
       ELSE IF parsedConsumedKW.t = "nan"
       THEN Thrown(rowIndex, "InvalidConsumption", "Invalid consumedKW value: ",
                   ToText(consumedKW))
       ELSE Returned([plant |-> plant.s, date |-> toJsDate(dateValue),
                      hourRange |-> hourRange.s,
                      sensorName |-> sensorName.s,
                      consumedKW |-> parsedConsumedKW])

parseRow(row, rowIndex) ==
    LET plant == Field(row, 1)
        dateValue == Field(row, 2)
        hourRange == Field(row, 3)
        sensorName == Field(row, 4)
        consumedKW == Field(row, 5)
        parsedConsumedKW == ToNumber(consumedKW)
    IN IF \A k \in 1..Len(row) : IsBlank(row[k])
       THEN Thrown(rowIndex, "MissingData", "Row has insufficient data", <<>>)
       ELSE IF ~isValidExcelDate(dateValue)
       THEN Thrown(rowIndex, "InvalidDate", "Invalid date value: ", ToText(dateValue))
       ELSE IF NotAName(plant)
       THEN Thrown(rowIndex, "InvalidData", "Invalid plant name", <<>>)
       ELSE IF NotAName(hourRange)
       THEN Thrown(rowIndex, "InvalidData", "Invalid hour range", <<>>)
       ELSE IF NotAName(sensorName)
       THEN Thrown(rowIndex, "InvalidData", "Invalid sensor name", <<>>)
       ELSE IF parsedConsumedKW.t = "nan"
       THEN Thrown(rowIndex, "InvalidConsumption", "Invalid consumedKW value: ",
                   ToText(consumedKW))
       ELSE Returned([plant |-> Trim(plant.s), date |-> toJsDate(dateValue),
                      hourRange |-> Trim(hourRange.s),
                      sensorName |-> Trim(sensorName.s),
                      consumedKW |-> parsedConsumedKW])

----------------------------------------------------------------------------
(* IotAnalyticsMetalmanParser.parseDataset *)

\* the destructuring without the discarded first element
DataRows_KeepHeader(data) == data

\* const [_, ...rows] = rawData
DataRows(data) == IF data = <<>> THEN <<>> ELSE Tail(data)

ErrorOf(o) == [row |-> o.row, type |-> o.type, message |-> o.message, raw |-> o.raw]

\* the loop without its try/catch: the first ParseError ends it
RECURSIVE ParseRows_FailFast(_, _, _, _)
ParseRows_FailFast(rows, k, result, errors) ==
    IF k > Len(rows) THEN [result |-> result, errors |-> errors]
    ELSE LET o == parseRow(rows[k], k)
         IN IF o.kind = "point"
            THEN ParseRows_FailFast(rows, k + 1, Append(result, o.point), errors)
            ELSE [result |-> result, errors |-> Append(errors, ErrorOf(o))]

\* rows.forEach from row k on: a point is pushed to result, a ParseError to
\* errors, and any other exception is dropped
RECURSIVE ParseRows(_, _, _, _)
ParseRows(rows, k, result, errors) ==
    IF k > Len(rows) THEN [result |-> result, errors |-> errors]
    ELSE LET o == parseRow(rows[k], k)
         IN IF o.kind = "point"
            THEN ParseRows(rows, k + 1, Append(result, o.point), errors)
            ELSE IF o.kind = "ParseError"
            THEN ParseRows(rows, k + 1, result, Append(errors, ErrorOf(o)))
            ELSE ParseRows(rows, k + 1, result, errors)

\* parseDataset of the variant that replaces parsedData instead of appending
parseDataset_Replacing(data, parsed) ==
    LET r == ParseRows(DataRows(data), 1, <<>>, <<>>)
    IN [ret |-> [result |-> r.result, errors |-> r.errors,
                 hasErrors |-> Len(r.errors) > 0],
        parsedData |-> r.result]

\* parseDataset returning { result, errors } whatever errors holds
parseDataset_AlwaysErrorsKey(data, parsed) ==
    LET r == ParseRows(DataRows(data), 1, <<>>, <<>>)
    IN [ret |-> [result |-> r.result, errors |-> r.errors, hasErrors |-> TRUE],
        parsedData |-> parsed \o r.result]

\* the value returned, and parsedData after this.parsedData.push(...result)
parseDataset(data, parsed) ==
    LET r == ParseRows(DataRows(data), 1, <<>>, <<>>)
    IN [ret |-> [result |-> r.result, errors |-> r.errors,
                 hasErrors |-> Len(r.errors) > 0],
        parsedData |-> parsed \o r.result]

----------------------------------------------------------------------------
(* Parsing one row of any content: parseIotDataset on a header and one row  *)

Header == <<Str(<<"P", "l", "a", "n", "t">>), Str(<<"D">>), Str(<<"H">>), Str(<<"S">>), Str(<<"K">>)>>

\* a serial whose date lies past the last valid Date
BeyondDates == Num(EXCEL_DATE_OFFSET + MaxTimeDays + 1)

FieldValues ==
    {Undef, Str(<<" ">>), Str(<<" ", "a", " ">>), Str(InfinityLiteral), Str(<<"7">>),
     Num(45000), NaN, Infinity, BeyondDates, Bool(TRUE)}

\* rows of up to five cells of any value, and rows with a sixth, extra cell
AnyRows ==
    UNION {[1..n -> FieldValues] : n \in 0..5}
    \cup {r \o <<Str(<<"x">>)>> : r \in [1..5 -> FieldValues]}

\* parseIotDataset: a new parser per call, whose parsedData is dropped with it
ParseIotDataset ==
    /\ ppc = "idle"
    /\ \E row \in AnyRows :
          /\ rawData' = <<Header, row>>
          /\ ret' = parseDataset(<<Header, row>>, <<>>).ret
    /\ ppc' = "parsed"
    /\ UNCHANGED <<parsedData, nvars, mvars, dvars, wvars>>

InitRow == NormStart(EmptySheet) /\ ParserIdle /\ LookupStart(<<>>)

SpecRow == InitRow /\ [][ParseIotDataset]_vars

----------------------------------------------------------------------------
(* The long-lived parser: parseDataset calls that accumulate, clearDataset  *)

RowPlant1 == <<Str(<<"P", "l", "a", "n", "t", "1">>), Num(45000), Str(<<"0", "-", "1">>), Str(<<"S", "e", "n", "s", "o", "r", "A">>), Num(10)>>
RowBlank == <<EmptyStr, EmptyStr, EmptyStr, EmptyStr, EmptyStr>>
RowNotADate == <<Str(<<"P", "l", "a", "n", "t", "2">>), Str(<<"n", "o", "t", "-", "a", "-", "d", "a", "t", "e">>), Str(<<"1", "-", "2">>), Str(<<"S", "e", "n", "s", "o", "r", "B">>), Num(5)>>
RowAbc == <<Str(<<"P", "l", "a", "n", "t", "1">>), Num(45000), Str(<<"0", "-", "1">>), Str(<<"S", "e", "n", "s", "o", "r", "A">>), Str(<<"a", "b", "c">>)>>
RowSpaced == <<Str(<<" ", "P", "l", "a", "n", "t", "2", " ">>), Num(45001), Str(<<"1", "-", "2">>), Str(<<" ", "S", "e", "n", "s", "o", "r", "B", " ">>), Str(<<"7">>)>>
RowNoPlant == <<EmptyStr, Num(45000), Str(<<"0", "-", "1">>), Str(<<"S", "e", "n", "s", "o", "r", "A">>), Num(10)>>

SampleRows == {RowPlant1, RowBlank, RowNotADate, RowAbc, RowSpaced, RowNoPlant}

\* no grid at all, or a header and up to MaxDataRows rows; and two grids
\* whose first row would itself parse as a data row
DatasetGrids ==
    {<<>>} \cup {<<Header>> \o rows : rows \in UNION {[1..n -> SampleRows] : n \in 0..MaxDataRows}}
    \cup {<<RowPlant1>>, <<RowPlant1, RowNotADate, RowSpaced>>}

ParseDataset ==
    /\ \E data \in DatasetGrids :
          LET r == parseDataset(data, parsedData)
          IN /\ Len(r.parsedData) <= MaxParsed
             /\ rawData' = data
             /\ ret' = r.ret
             /\ parsedData' = r.parsedData
    /\ ppc' = "parsed"
    /\ UNCHANGED <<nvars, mvars, dvars, wvars>>

ClearDataset ==
    /\ parsedData' = <<>>
    /\ ppc' = "cleared"
    /\ UNCHANGED <<rawData, ret, nvars, mvars, dvars, wvars>>

\* the grids handed to parseIotDataset while the long-lived parser holds data
FreshGrids == {<<Header, RowPlant1>>, <<Header, RowNotADate, RowSpaced>>}

\* parseIotDataset called beside the long-lived parser: it parses with a
\* parser of its own, created empty and dropped on return
ParseIotDatasetBeside ==
    /\ \E data \in FreshGrids :
          /\ rawData' = data
          /\ ret' = parseDataset(data, <<>>).ret
    /\ ppc' = "fresh"
    /\ UNCHANGED <<parsedData, nvars, mvars, dvars, wvars>>

InitParse == NormStart(EmptySheet) /\ ParserIdle /\ LookupStart(<<>>)

NextParse == ParseDataset \/ ClearDataset \/ ParseIotDatasetBeside

SpecParse == InitParse /\ [][NextParse]_vars

----------------------------------------------------------------------------
(* Claims about the parser *)

\* C1: every data row yields exactly one outcome, a point or a ParseError:
\* the points and the errors together number the data rows, and each error
\* names a data row of its own.
C1_OneOutcomePerRow ==
    ppc = "parsed" =>
        LET n == Len(DataRows(rawData))
        IN /\ Len(ret.result) + Len(ret.errors) = n
           /\ \A i \in 1..Len(ret.errors) : ret.errors[i].row \in 1..n
           /\ \A i, j \in 1..Len(ret.errors) :
                 i # j => ret.errors[i].row # ret.errors[j].row

\* C1 witness: the first data row failed and the row after it still gave a point.
C1_Witness ==
    /\ ppc = "parsed"
    /\ Len(DataRows(rawData)) = 2
    /\ Len(ret.errors) = 1 /\ ret.errors[1].row = 1
    /\ Len(ret.result) = 1

TheRow == rawData[2]

FailsEmptiness(row) == \A k \in 1..Len(row) : IsBlank(row[k])
FailsDate(row) == ~(IsNumber(Field(row, 2)) /\ toJsDate(Field(row, 2)).valid)
FailsPlant(row) == NotAName(Field(row, 1))
FailsHourRange(row) == NotAName(Field(row, 3))
FailsSensorName(row) == NotAName(Field(row, 4))
FailsConsumption(row) == ToNumber(Field(row, 5)).t = "nan"

\* the error the spec's order of checks assigns to a row, <<>> for none
FirstFailure(row) ==
    IF FailsEmptiness(row) THEN <<"MissingData", "Row has insufficient data">>
    ELSE IF FailsDate(row) THEN <<"InvalidDate", "Invalid date value: ">>
    ELSE IF FailsPlant(row) THEN <<"InvalidData", "Invalid plant name">>
    ELSE IF FailsHourRange(row) THEN <<"InvalidData", "Invalid hour range">>
    ELSE IF FailsSensorName(row) THEN <<"InvalidData", "Invalid sensor name">>
    ELSE IF FailsConsumption(row) THEN <<"InvalidConsumption", "Invalid consumedKW value: ">>
    ELSE <<>>

\* C2: the checks run in the order emptiness, date, plant, hour range, sensor
\* name, consumption, and the row's single error is that of the first check
\* that fails; a row that fails none gives a point and no error.
C2_FirstFailingCheckWins ==
    ppc = "parsed" =>
        LET f == FirstFailure(TheRow)
        IN IF f = <<>>
           THEN Len(ret.errors) = 0 /\ Len(ret.result) = 1
           ELSE /\ Len(ret.result) = 0 /\ Len(ret.errors) = 1
                /\ ret.errors[1].type = f[1]
                /\ ret.errors[1].message = f[2]

\* C2 witness: a row with a bad date, a bad plant and a bad consumption was
\* reported with InvalidDate.
C2_Witness ==
    /\ ppc = "parsed"
    /\ ~FailsEmptiness(TheRow)
    /\ FailsDate(TheRow) /\ FailsPlant(TheRow) /\ FailsConsumption(TheRow)
    /\ Len(ret.errors) = 1 /\ ret.errors[1].type = "InvalidDate"

\* C6: every emitted point has a finite consumedKW.
C6_FiniteConsumption ==
    ppc = "parsed" =>
        \A i \in 1..Len(ret.result) : ret.result[i].consumedKW.t = "num"

\* a finite number whose date is a valid instant
FiniteValidSerial(v) ==
    /\ v.t = "num"
    /\ v.n - EXCEL_DATE_OFFSET \in (0 - MaxTimeDays)..MaxTimeDays

\* the text of a raw value as the message shows it
RawText(v) ==
    CASE v.t = "str" -> v.s
      [] v.t = "undef" -> <<"u", "n", "d", "e", "f", "i", "n", "e", "d">>
      [] v.t = "nan" -> <<"N", "a", "N">>
      [] v.t = "inf" -> <<"I", "n", "f", "i", "n", "i", "t", "y">>
      [] v.t = "bool" -> IF v.n = 1 THEN <<"t", "r", "u", "e">> ELSE <<"f", "a", "l", "s", "e">>
      [] OTHER -> DecimalText(v.n)

\* C11: a non-blank row passes the date check exactly when its second field
\* is a finite number whose date is a valid instant; with any other value the
\* row's only outcome is an InvalidDate error whose message ends in the raw
\* value, and no point is emitted.
C11_DateValidation ==
    (ppc = "parsed" /\ ~FailsEmptiness(TheRow)) =>
        LET v == Field(TheRow, 2)
        IN IF FiniteValidSerial(v)
           THEN \A i \in 1..Len(ret.errors) : ret.errors[i].type # "InvalidDate"
           ELSE /\ Len(ret.result) = 0
                /\ Len(ret.errors) = 1
                /\ ret.errors[1].type = "InvalidDate"
                /\ ret.errors[1].message = "Invalid date value: "
                /\ ret.errors[1].raw = RawText(v)

\* C11 witness: a row whose date is the numeric string "7" and whose other
\* fields are good was refused with InvalidDate naming "7".
C11_Witness ==
    /\ ppc = "parsed"
    /\ Field(TheRow, 2) = Str(<<"7">>)
    /\ ~FailsPlant(TheRow) /\ ~FailsHourRange(TheRow)
    /\ ~FailsSensorName(TheRow) /\ ~FailsConsumption(TheRow)
    /\ Len(ret.result) = 0
    /\ Len(ret.errors) = 1 /\ ret.errors[1].type = "InvalidDate"
    /\ ret.errors[1].raw = <<"7">>

\* the rows of the grid after its first row
RowsAfterHeader == [i \in 1..(Len(rawData) - 1) |-> rawData[i + 1]]

\* the members of a set of numbers in increasing order
RECURSIVE Ascending(_)
Ascending(S) ==
    IF S = {} THEN <<>>
    ELSE <<SetMin(S)>> \o Ascending(S \ {SetMin(S)})

\* the point the spec derives from a row that passes every check
PointOfRow(row) ==
    [plant |-> Trim(row[1].s),
     date |-> [valid |-> TRUE, days |-> row[2].n - EXCEL_DATE_OFFSET, ms |-> 0],
     hourRange |-> Trim(row[3].s),
     sensorName |-> Trim(row[4].s),
     consumedKW |-> ToNumber(row[5])]

\* C12: the first grid row is discarded whatever it holds; the i-th row after
\* it is reported with row = i when it fails, so errors is strictly increasing
\* in row, and the points are those of the passing rows in row order.
C12_HeaderDiscardedOrderKept ==
    ppc = "parsed" =>
        LET rows == RowsAfterHeader
            failed == Ascending({i \in 1..Len(rows) : FirstFailure(rows[i]) # <<>>})
            passed == Ascending({i \in 1..Len(rows) : FirstFailure(rows[i]) = <<>>})
        IN /\ Len(ret.errors) = Len(failed)
           /\ \A k \in 1..Len(failed) : ret.errors[k].row = failed[k]
           /\ \A k \in 1..(Len(ret.errors) - 1) : ret.errors[k].row < ret.errors[k + 1].row
           /\ Len(ret.result) = Len(passed)
           /\ \A k \in 1..Len(passed) : ret.result[k] = PointOfRow(rows[passed[k]])

\* C12 witness: the grid's first row would parse as a data row and was
\* discarded; the row after it failed as row 1 and the next gave the only point.
C12_Witness ==
    /\ ppc = "parsed"
    /\ Len(rawData) = 3
    /\ FirstFailure(rawData[1]) = <<>>
    /\ Len(ret.errors) = 1 /\ ret.errors[1].row = 1
    /\ ret.result = <<PointOfRow(rawData[3])>>

\* C15: the returned object has an errors key exactly when at least one data
\* row failed, and the list under the key is then non-empty; with no data rows,
\* or with every row parsed, the key is left out.
C15_ErrorsKeyOnlyWhenNonEmpty ==
    ppc = "parsed" =>
        LET rows == RowsAfterHeader
            someFailed == \E i \in 1..Len(rows) : FirstFailure(rows[i]) # <<>>
        IN /\ ret.hasErrors <=> someFailed
           /\ ret.hasErrors => Len(ret.errors) > 0
           /\ Len(rows) = 0 => ~ret.hasErrors

\* C15 witness: a grid of a header alone was parsed and the key was left out.
C15_Witness ==
    /\ ppc = "parsed"
    /\ Len(rawData) = 1
    /\ ~ret.hasErrors /\ ret.errors = <<>> /\ ret.result = <<>>

\* C17: every emitted point has a plant, an hour range and a sensor name that
\* are non-empty strings without leading or trailing white space, and a date
\* that is a valid instant, the conversion of the row's date serial.
C17_PointFieldsClean ==
    ppc = "parsed" =>
        \A i \in 1..Len(ret.result) :
            LET p == ret.result[i]
            IN /\ p.plant # <<>> /\ Trim(p.plant) = p.plant
               /\ p.hourRange # <<>> /\ Trim(p.hourRange) = p.hourRange
               /\ p.sensorName # <<>> /\ Trim(p.sensorName) = p.sensorName
               /\ p.date.valid
               /\ p.date.days = Field(TheRow, 2).n - EXCEL_DATE_OFFSET
               /\ p.date.ms = 0

\* C17 witness: a row whose three names are padded with blanks gave a point
\* with the bare names.
C17_Witness ==
    /\ ppc = "parsed"
    /\ Field(TheRow, 1) = Str(<<" ", "a", " ">>)
    /\ Field(TheRow, 3) = Str(<<" ", "a", " ">>)
    /\ Field(TheRow, 4) = Str(<<" ", "a", " ">>)
    /\ Len(ret.result) = 1
    /\ ret.result[1].plant = <<"a">>
    /\ ret.result[1].date.valid

\* the points the spec derives from a grid: those of its passing rows, in order
PointsOf(data) ==
    LET rows == [i \in 1..(Len(data) - 1) |-> data[i + 1]]
        passed == Ascending({i \in 1..Len(rows) : FirstFailure(rows[i]) = <<>>})
    IN [k \in 1..Len(passed) |-> PointOfRow(rows[passed[k]])]

\* C18: on one parser, parsedData is the concatenation in call order of the
\* result lists of the parseDataset calls since the last clearDataset: each
\* parseDataset call appends its result, which holds the points of the passing
\* rows of its own grid alone, clearDataset empties it, and a parseIotDataset
\* call returns the points of its own grid and leaves the parser's data alone.
C18_AccumulatesSinceClear ==
    [][/\ ppc' = "parsed" =>
            /\ ret'.result = PointsOf(rawData')
            /\ parsedData' = parsedData \o ret'.result
       /\ ppc' = "cleared" => parsedData' = <<>>
       /\ ppc' = "fresh" =>
            /\ ret'.result = PointsOf(rawData')
            /\ parsedData' = parsedData]_vars

\* C18 witness: the parser holds three points from more than one call, the
\* last of which had a failing row and added one point.
C18_Witness ==
    /\ ppc = "parsed"
    /\ Len(parsedData) = 3
    /\ Len(ret.result) = 1
    /\ ret.hasErrors

----------------------------------------------------------------------------
(* normalizeString, matchNormalizedPhrase and the worksheet lookup of       *)
(* parseMasterSheetFromWorkbook                                             *)

UpperCase == <<"A", "B", "C", "D", "E", "F", "G", "H", "I", "J", "K", "L", "M", "N", "O", "P", "Q", "R", "S", "T", "U", "V", "W", "X", "Y", "Z">>
LowerCase == <<"a", "b", "c", "d", "e", "f", "g", "h", "i", "j", "k", "l", "m", "n", "o", "p", "q", "r", "s", "t", "u", "v", "w", "x", "y", "z">>

IsLower(c) == \E k \in 1..26 : LowerCase[k] = c

\* String.prototype.toLowerCase, one character
ToLower(c) ==
    IF \E k \in 1..26 : UpperCase[k] = c
    THEN LowerCase[CHOOSE k \in 1..26 : UpperCase[k] = c]
    ELSE c

\* [^a-z0-9\s] is what replace() removes
Removed(c) == ~(IsLower(c) \/ IsDigit(c) \/ IsWs(c))

\* normalizeString with /[^a-z0-9]/g: white space removed as well
normalizeString_NoWhiteSpace(phrase) ==
    LET t == Trim(phrase)
        l == [k \in 1..Len(t) |-> ToLower(t[k])]
    IN SelectSeq(l, LAMBDA c : ~Removed(c) /\ ~IsWs(c))

\* phrase.trim().toLowerCase().replace(/[^a-z0-9\s]/g, "")
normalizeString(phrase) ==
    LET t == Trim(phrase)
        l == [k \in 1..Len(t) |-> ToLower(t[k])]
    IN SelectSeq(l, LAMBDA c : ~Removed(c))

NoMatch == [found |-> FALSE, name |-> <<>>]

\* the loop from index k on: the first array[i] whose normal form is the phrase's
RECURSIVE MatchFrom(_, _, _)
MatchFrom(normalizedPhrase, array, k) ==
    IF k > Len(array) THEN NoMatch
    ELSE IF normalizeString(array[k]) = normalizedPhrase
    THEN [found |-> TRUE, name |-> array[k]]
    ELSE MatchFrom(normalizedPhrase, array, k + 1)

\* matchNormalizedPhrase falling back to the first name when none matches
matchNormalizedPhrase_FirstSheetFallback(phrase, array) ==
    LET r == MatchFrom(normalizeString(phrase), array, 1)
    IN IF r.found \/ array = <<>> THEN r ELSE [found |-> TRUE, name |-> array[1]]

matchNormalizedPhrase(phrase, array) == MatchFrom(normalizeString(phrase), array, 1)

MAIN_WORKSHEET_NAME == <<"M", "a", "s", "t", "e", "r", "_", "D", "a", "t", "a">>

DashedName == << " ", "m", "a", "s", "t", "e", "r", "-", "d", "a", "t", "a", " ">>
SpacedName == <<" ", " ", "m", "a", "s", "t", "e", "r", " ", "d", "a", "t", "a", " ", " ">>
MasterData2 == <<"M", "a", "s", "t", "e", "r", "D", "a", "t", "a", "2">>
MasterDataName == <<"M", "a", "s", "t", "e", "r", "D", "a", "t", "a">>

SheetNameSet ==
    {MAIN_WORKSHEET_NAME, SpacedName, MasterData2, MasterDataName,
     DashedName, <<"M", "A", "S", "T", "E", "R", " ", "D", "A", "T", "A">>,
     <<"m", "a", "s", "t", "e", "r", "\t", "d", "a", "t", "a">>, <<"S", "h", "e", "e", "t", "1">>, <<>>}

SheetNameLists == UNION {[1..n -> SheetNameSet] : n \in 0..MaxSheets}

\* the lookup of parseMasterSheetFromWorkbook: null is in no SheetNames, so
\* the method throws exactly when nothing matched
ParseMasterSheetFromWorkbook ==
    /\ mpc = "start"
    /\ matched' = matchNormalizedPhrase(MAIN_WORKSHEET_NAME, sheetNames)
    /\ mpc' = IF matched'.found THEN "found" ELSE "thrown"
    /\ UNCHANGED <<sheetNames, nvars, pvars, dvars, wvars>>

\* the parser before the lookup: new, or holding the outcome of one
\* parseDataset call with a good and a bad row
ParserAfter(data) ==
    /\ rawData = data
    /\ ret = parseDataset(data, <<>>).ret
    /\ parsedData = parseDataset(data, <<>>).parsedData
    /\ ppc = IF data = <<>> THEN "idle" ELSE "parsed"

InitMatch ==
    /\ NormStart(EmptySheet)
    /\ \E data \in {<<>>, <<Header, RowPlant1, RowAbc>>} : ParserAfter(data)
    /\ \E names \in SheetNameLists : LookupStart(names)

SpecMatch == InitMatch /\ [][ParseMasterSheetFromWorkbook]_vars

----------------------------------------------------------------------------
(* Claims about the worksheet lookup *)

NameAt(i) == sheetNames[i]

\* C7 as stated: target 'Master_Data' finds the sheet '  master data  ' when
\* it is in the list, and does not find 'MasterData2'.
C7_SpacedNameMatches ==
    (mpc # "start" /\ \A i \in 1..Len(sheetNames) : NameAt(i) \in {SpacedName, MasterData2}) =>
        IF \E i \in 1..Len(sheetNames) : NameAt(i) = SpacedName
        THEN matched = [found |-> TRUE, name |-> SpacedName]
        ELSE matched = NoMatch

\* the characters of a name between its first and its last non-blank one, in
\* lower case, without those that are neither letter, digit nor white space
Inner(name) ==
    LET solid == {k \in 1..Len(name) : ~IsWs(name[k])}
    IN IF solid = {} THEN <<>>
       ELSE SubSeq(name, SetMin(solid), SetMax(solid))

RECURSIVE Canonical(_)
Canonical(name) ==
    IF name = <<>> THEN <<>>
    ELSE LET c == ToLower(Head(name))
         IN IF IsLower(c) \/ IsDigit(c) \/ IsWs(c)
            THEN <<c>> \o Canonical(Tail(name))
            ELSE Canonical(Tail(name))

TargetForm == <<"m", "a", "s", "t", "e", "r", "d", "a", "t", "a">>

\* C7 as amended: the lookup returns the first sheet name whose normal form
\* (trimmed, lower case, only letters, digits and white space kept) equals
\* 'masterdata', the normal form of 'Master_Data', and nothing when there is
\* none; an inner space is kept, so '  master data  ' does not match, nor
\* does 'MasterData2', while 'MasterData' and ' master-data ' do.
C7_NormalFormEquality ==
    mpc # "start" =>
        LET hits == {i \in 1..Len(sheetNames) : Canonical(Inner(NameAt(i))) = TargetForm}
        IN /\ matched.found <=> hits # {}
           /\ matched.found => matched.name = NameAt(SetMin(hits))
           /\ ~matched.found => matched = NoMatch
           /\ \A i \in hits : NameAt(i) \notin {SpacedName, MasterData2}
           /\ \A i \in 1..Len(sheetNames) :
                 NameAt(i) \in {MasterDataName, DashedName, MAIN_WORKSHEET_NAME} => i \in hits

\* C7 witness: '  master data  ' came first in the list and was passed over
\* for the 'MasterData' after it.
C7_Witness ==
    /\ mpc = "found"
    /\ Len(sheetNames) = 2
    /\ NameAt(1) = SpacedName /\ NameAt(2) = MasterDataName
    /\ matched.name = MasterDataName

\* C13: when no sheet name of the workbook has the target's normal form,
\* parseMasterSheetFromWorkbook throws and returns no grid, and the throwing
\* call leaves the last row-error list and the accumulated dataset as they were.
C13_NotFoundIsHardFailure ==
    /\ [](mpc # "start" =>
            /\ (\A i \in 1..Len(sheetNames) : Canonical(Inner(NameAt(i))) # TargetForm)
                  <=> mpc = "thrown"
            /\ mpc = "thrown" => matched = NoMatch)
    /\ [][mpc' = "thrown" => (ret' = ret /\ parsedData' = parsedData)]_vars

\* C13 witness: the lookup threw on a workbook of two sheets, one of them
\* '  master data  ', while the parser held a point and a row error from an
\* earlier parse; both are still there.
C13_Witness ==
    /\ mpc = "thrown"
    /\ Len(sheetNames) = 2
    /\ \E i \in 1..2 : NameAt(i) = SpacedName
    /\ Len(parsedData) = 1
    /\ Len(ret.errors) = 1

----------------------------------------------------------------------------
(* The date helpers there and back.  toExcelDate returns a double that is   *)
(* seldom a whole number, so a serial is kept here as whole days n plus u   *)
(* units of 2^-38 day, the spacing of doubles between 16384 and 32768,      *)
(* where the serials of 1970 lie.  One such unit is 84375 / 2^28 ms.  The   *)
(* arithmetic below is that of doubles for the dates and serials of         *)
(* SpecDate: whole days anywhere, and the first milliseconds of 1970-01-01. *)

MaxMs == 3         \* dates of 1970-01-01 run to this many milliseconds past midnight

Serial(n, u) == [t |-> "num", n |-> n, u |-> u]
NaNSerial == [t |-> "nan", n |-> 0, u |-> 0]

\* MILLISECONDS_PER_DAY = 2^10 * 84375, so 1 ms = 2^28 / 84375 units of 2^-38 day
OddPartOfDay == MILLISECONDS_PER_DAY \div 1024
UnitsPerOddPart == 2 ^ 28

\* x / y rounded to the nearest whole number, as a double operation rounds
RoundDiv(x, y) == (x \div y) + (IF 2 * (x % y) >= y THEN 1 ELSE 0)

\* jsDate.getTime() / MILLISECONDS_PER_DAY + EXCEL_DATE_OFFSET: the quotient is
\* rounded to the serial's spacing by the addition; getTime() of an invalid
\* Date is NaN
toExcelDate(d) ==
    IF ~d.valid THEN NaNSerial
    ELSE Serial(d.days + EXCEL_DATE_OFFSET, RoundDiv(d.ms * UnitsPerOddPart, OddPartOfDay))

\* toJsDate of a serial with a fraction: the product is exact, and new Date()
\* drops the fraction of a millisecond (TimeClip truncates)
toJsDateOfSerial(x) ==
    IF x.t = "num" /\ x.n - EXCEL_DATE_OFFSET <= MaxTimeDays
                   /\ EXCEL_DATE_OFFSET - x.n <= MaxTimeDays
    THEN [valid |-> TRUE, days |-> x.n - EXCEL_DATE_OFFSET,
          ms |-> (x.u * OddPartOfDay) \div UnitsPerOddPart]
    ELSE InvalidDate

Epoch == [valid |-> TRUE, days |-> 0, ms |-> 0]

\* representable dates: midnights from the first to the last valid Date, and
\* the first milliseconds of 1970-01-01
Dates ==
    {[valid |-> TRUE, days |-> d, ms |-> 0] :
        d \in {0 - MaxTimeDays, 0 - EXCEL_DATE_OFFSET, 0 - 1, 0, 1, 45000 - EXCEL_DATE_OFFSET, MaxTimeDays}}
    \cup {[valid |-> TRUE, days |-> 0, ms |-> m] : m \in 1..MaxMs}

\* finite serials: whole days, the last of them past the last valid Date
FiniteSerials ==
    {Serial(n, 0) : n \in {0, 1, EXCEL_DATE_OFFSET, 45000, EXCEL_DATE_OFFSET + MaxTimeDays,
                            EXCEL_DATE_OFFSET + MaxTimeDays + 1}}

InitDate ==
    /\ NormStart(EmptySheet)
    /\ ParserIdle
    /\ sheetNames = <<>> /\ matched = [found |-> FALSE, name |-> <<>>] /\ mpc = "start"
    /\ jsDate \in Dates
    /\ excelDate \in FiniteSerials
    /\ dateBack = InvalidDate
    /\ serialBack = NaNSerial
    /\ dpc = "start"
    /\ reads = <<>> /\ workbookData = "null" /\ selectedSheetName = ""

\* toJsDate(toExcelDate(jsDate))
DateToSerialAndBack ==
    /\ dpc = "start"
    /\ dateBack' = toJsDateOfSerial(toExcelDate(jsDate))
    /\ dpc' = "date"
    /\ UNCHANGED <<jsDate, excelDate, serialBack, nvars, pvars, mvars, wvars>>

\* toExcelDate(toJsDate(excelDate))
SerialToDateAndBack ==
    /\ dpc = "date"
    /\ serialBack' = toExcelDate(toJsDateOfSerial(excelDate))
    /\ dpc' = "both"
    /\ UNCHANGED <<jsDate, excelDate, dateBack, nvars, pvars, mvars, wvars>>

NextDate == DateToSerialAndBack \/ SerialToDateAndBack

SpecDate == InitDate /\ [][NextDate]_vars

\* C16: a representable date comes back from toExcelDate and toJsDate as the
\* same instant to the millisecond, a finite serial comes back from toJsDate
\* and toExcelDate as the same number, and serial 25569 is the epoch.
C16_RoundTrip ==
    /\ dpc \in {"date", "both"} => dateBack = jsDate
    /\ dpc = "both" => serialBack = excelDate
    /\ toJsDateOfSerial(Serial(25569, 0)) = Epoch

----------------------------------------------------------------------------
(* readContentsFromExcelFile and ExcelReaderView.  A read is the FileReader *)
(* of one call and the promise the call returned: which handlers are still  *)
(* set on the reader, how many events the reader has fired, how often       *)
(* resolve or reject was called, and the state of the promise.              *)

MaxReads == 2      \* uploads of one view
MaxEvents == 2     \* events one reader fires

\* what the file input hands over: a file that decodes to workbook W1 or W2,
\* a file XLSX.read throws on, or no file at all (files?.[0] undefined)
Workbooks == {"W1", "W2"}
Files == Workbooks \cup {"corrupt", "none"}

\* workbook.SheetNames
SheetNamesOf(w) ==
    IF w = "W1" THEN {"S1", "S2"} ELSE IF w = "W2" THEN {"S2", "S3"} ELSE {}

\* new FileReader() with its three handlers set, inside new Promise(...)
NewRead(file) ==
    [file |-> file, onload |-> TRUE, onerror |-> TRUE, onabort |-> TRUE,
     events |-> 0, settles |-> 0, promise |-> "pending"]

\* a call of resolve or reject: only the first settles the promise
Settle(r, outcome) ==
    [r EXCEPT !.settles = @ + 1,
              !.promise = IF @ = "pending" THEN outcome ELSE @]

\* cleanupReader clearing onload alone
cleanupReader_OnloadOnly(r) == [r EXCEPT !.onload = FALSE]

cleanupReader(r) == [r EXCEPT !.onload = FALSE, !.onerror = FALSE, !.onabort = FALSE]

\* useMemo of ExcelReaderView: null, the grid of the selected sheet, or the
\* TypeError of handleMergedCells(undefined) when the workbook has no such sheet
selectedSheetData ==
    IF workbookData = "null" \/ selectedSheetName = "" THEN "null"
    ELSE IF selectedSheetName \in SheetNamesOf(workbookData) THEN "grid"
    ELSE "TypeError"

\* handleFileUpload up to its await: readContentsFromExcelFile creates the
\* reader and starts the read; readAsArrayBuffer(undefined) throws at once,
\* which rejects and cleans up.  The input is rendered while no workbook is shown.
HandleFileUpload ==
    /\ workbookData = "null"
    /\ Len(reads) < MaxReads
    /\ \E file \in Files :
          reads' = Append(reads,
                          IF file = "none"
                          THEN cleanupReader(Settle(NewRead(file), "rejected"))
                          ELSE NewRead(file))
    /\ UNCHANGED <<workbookData, selectedSheetName, nvars, pvars, mvars, dvars>>

\* the reader of read i may fire an event: its read was started
MayFire(i) ==
    /\ i \in 1..Len(reads)
    /\ reads[i].file # "none"
    /\ reads[i].events < MaxEvents

\* reader.onload, and the rest of handleFileUpload behind its await: the
\* workbook is resolved, or the error of XLSX.read rejected; then cleanup;
\* a resolved await goes on to setWorkbookData(workbook)
ReaderLoad(i) ==
    /\ MayFire(i)
    /\ LET r == [reads[i] EXCEPT !.events = @ + 1]
           decoded == r.file \in Workbooks
       IN IF ~r.onload
          THEN /\ reads' = [reads EXCEPT ![i] = r]
               /\ UNCHANGED workbookData
          ELSE /\ reads' = [reads EXCEPT ![i] =
                               cleanupReader(Settle(r, IF decoded THEN "resolved"
                                                       ELSE "rejected"))]
               /\ workbookData' = IF decoded /\ r.promise = "pending"
                                   THEN r.file ELSE workbookData
    /\ UNCHANGED <<selectedSheetName, nvars, pvars, mvars, dvars>>

\* reader.onerror: reject, cleanup; handleFileUpload's catch logs the error
ReaderError(i) ==
    /\ MayFire(i)
    /\ LET r == [reads[i] EXCEPT !.events = @ + 1]
       IN reads' = [reads EXCEPT ![i] =
                       IF r.onerror THEN cleanupReader(Settle(r, "rejected")) ELSE r]
    /\ UNCHANGED <<workbookData, selectedSheetName, nvars, pvars, mvars, dvars>>

\* reader.onabort: reject, cleanup
ReaderAbort(i) ==
    /\ MayFire(i)
    /\ LET r == [reads[i] EXCEPT !.events = @ + 1]
       IN reads' = [reads EXCEPT ![i] =
                       IF r.onabort THEN cleanupReader(Settle(r, "rejected")) ELSE r]
    /\ UNCHANGED <<workbookData, selectedSheetName, nvars, pvars, mvars, dvars>>

\* a button of ExcelSheetSelector, rendered per name of the workbook shown
SetSelectedSheet ==
    /\ workbookData # "null"
    /\ \E name \in SheetNamesOf(workbookData) : selectedSheetName' = name
    /\ UNCHANGED <<reads, workbookData, nvars, pvars, mvars, dvars>>

\* the Reset button, rendered while a workbook is shown
HandleReset ==
    /\ workbookData # "null"
    /\ workbookData' = "null"
    /\ selectedSheetName' = ""
    /\ UNCHANGED <<reads, nvars, pvars, mvars, dvars>>

InitView ==
    /\ NormStart(EmptySheet)
    /\ ParserIdle
    /\ LookupStart(<<>>)

ReaderEvent(i) == ReaderLoad(i) \/ ReaderError(i) \/ ReaderAbort(i)

NextView ==
    \/ HandleFileUpload
    \/ \E i \in 1..MaxReads : ReaderLoad(i)
    \/ \E i \in 1..MaxReads : ReaderError(i)
    \/ \E i \in 1..MaxReads : ReaderAbort(i)
    \/ SetSelectedSheet
    \/ HandleReset

SpecView == InitView /\ [][NextView]_vars

\* a FileReader whose read was started ends it with a load, error or abort event
SpecRead ==
    /\ InitView
    /\ [][NextView]_vars
    /\ \A i \in 1..MaxReads : WF_vars(ReaderEvent(i))

----------------------------------------------------------------------------
(* Claims about the file read and the view *)

Detached(r) == ~r.onload /\ ~r.onerror /\ ~r.onabort

\* C14: whatever events a reader fires and in whatever order, resolve or
\* reject is called exactly once for its promise: never twice, all three
\* handlers are off the reader once the first event (or the failure of
\* readAsArrayBuffer) has been handled, no later event changes a settled
\* promise, and every read that was started is settled in the end.
C14_SettlesExactlyOnce ==
    /\ [](\A i \in 1..Len(reads) :
            /\ reads[i].settles <= 1
            /\ reads[i].promise = "pending" <=> reads[i].settles = 0
            /\ (reads[i].events >= 1 \/ reads[i].settles >= 1) => Detached(reads[i]))
    /\ [][\A i \in 1..Len(reads) :
            reads[i].promise # "pending" =>
                /\ reads'[i].promise = reads[i].promise
                /\ reads'[i].settles = reads[i].settles]_vars
    /\ \A i \in 1..MaxReads :
          (Len(reads) >= i) ~> (Len(reads) >= i /\ reads[i].promise # "pending")

\* C14 witness: a reader fired twice; the first event resolved the promise
\* and the second found no handler.
C14_Witness ==
    \E i \in 1..Len(reads) :
        /\ reads[i].events = 2
        /\ reads[i].settles = 1
        /\ reads[i].promise = "resolved"

\* C20: selectedSheetName is empty or names a sheet of the workbook shown, so
\* the view never normalises a sheet its workbook does not have.
C20_SelectionInWorkbook ==
    /\ selectedSheetName = ""
          \/ (workbookData # "null" /\ selectedSheetName \in SheetNamesOf(workbookData))
    /\ selectedSheetData # "TypeError"

====
